---- MODULE Spec2Model ----
(***************************************************************************)
(* A model of package hj (bobg/hj): Handler turns a function into an       *)
(* http.Handler that speaks JSON; jsonHandler.ServeHTTP is the per-request *)
(* pipeline; handleErr turns an error into a response and reports it to    *)
(* the optional onError callback.                                          *)
(***************************************************************************)
EXTENDS Integers, Sequences, FiniteSets, TLC

(***************************************************************************)
(* Bounds of the model.                                                    *)
(***************************************************************************)
\* functions with 0..MaxArity parameters and 0..MaxArity results are tried
MaxArity == 3
\* request bodies are the texts of at most MaxBodyLen characters
MaxBodyLen == 2
\* the transport has MaxReqs request slots
MaxReqs == 2

(***************************************************************************)
(* Types of the wrapped function's parameters and results.                 *)
(***************************************************************************)
NilType == "nil"
ParamTypes == {"context.Context", "float64"}
ResultTypes == {"error", "float64"}

\* the sequences over S with 0..n elements
RECURSIVE SeqsUpTo(_, _)
SeqsUpTo(S, n) ==
  IF n = 0 THEN {<<>>}
  ELSE LET shorter == SeqsUpTo(S, n - 1)
       IN  shorter \cup {Append(s, x) : s \in {t \in shorter : Len(t) = n - 1}, x \in S}

\* the values that can be passed as f to Handler: a non-function, or a
\* function type with its parameter and result types
NonFunc == [kind |-> "int", variadic |-> FALSE, ins |-> <<>>, outs |-> <<>>]
Funcs ==
  {NonFunc} \cup
  {[kind |-> "func", variadic |-> v, ins |-> i, outs |-> o] :
     v \in BOOLEAN, i \in SeqsUpTo(ParamTypes, MaxArity), o \in SeqsUpTo(ResultTypes, MaxArity)}
\* a variadic function has a last parameter
FuncValues == {g \in Funcs : g.variadic => Len(g.ins) >= 1}

\* reflect.Type.Implements(contextType), Implements(errorType)
ImplementsContext(t) == t = "context.Context"
ImplementsError(t) == t = "error"

(***************************************************************************)
(* Handler: the one-time inspection of the function's shape.               *)
(***************************************************************************)
Panic(msg) ==
  [panic |-> msg, fval |-> NonFunc, hasCtx |-> FALSE, hasErr |-> FALSE,
   argType |-> NilType, resultType |-> NilType, onError |-> FALSE]

\* HandlerIn without the check that the first of two parameters is a context
HandlerIn_AnyFirst(ins) ==
  CASE Len(ins) = 0 -> [panic |-> "", hasCtx |-> FALSE, argType |-> NilType]
    [] Len(ins) = 1 ->
         IF ImplementsContext(ins[1])
         THEN [panic |-> "", hasCtx |-> TRUE, argType |-> NilType]
         ELSE [panic |-> "", hasCtx |-> FALSE, argType |-> ins[1]]
    [] Len(ins) = 2 -> [panic |-> "", hasCtx |-> TRUE, argType |-> ins[2]]
    [] OTHER -> [panic |-> "n-ary function passed to hj.Handler",
                 hasCtx |-> FALSE, argType |-> NilType]

\* the switch on ftype.NumIn(): hasCtx, argType, or a panic
HandlerIn(ins) ==
  CASE Len(ins) = 0 -> [panic |-> "", hasCtx |-> FALSE, argType |-> NilType]
    [] Len(ins) = 1 ->
         IF ImplementsContext(ins[1])
         THEN [panic |-> "", hasCtx |-> TRUE, argType |-> NilType]
         ELSE [panic |-> "", hasCtx |-> FALSE, argType |-> ins[1]]
    [] Len(ins) = 2 ->
         IF ImplementsContext(ins[1])
         THEN [panic |-> "", hasCtx |-> TRUE, argType |-> ins[2]]
         ELSE [panic |-> "two-arg function passed to hj.Handler with non-context first arg",
               hasCtx |-> FALSE, argType |-> NilType]
    [] OTHER -> [panic |-> "n-ary function passed to hj.Handler",
                 hasCtx |-> FALSE, argType |-> NilType]

\* the switch on ftype.NumOut(): hasErr, resultType, or a panic
HandlerOut(outs) ==
  CASE Len(outs) = 0 -> [panic |-> "", hasErr |-> FALSE, resultType |-> NilType]
    [] Len(outs) = 1 ->
         IF ImplementsError(outs[1])
         THEN [panic |-> "", hasErr |-> TRUE, resultType |-> NilType]
         ELSE [panic |-> "", hasErr |-> FALSE, resultType |-> outs[1]]
    [] Len(outs) = 2 ->
         IF ImplementsError(outs[2])
         THEN [panic |-> "", hasErr |-> TRUE, resultType |-> outs[1]]
         ELSE [panic |-> "two-valued function passed to hj.Handler with non-error second value",
               hasErr |-> FALSE, resultType |-> NilType]
    [] OTHER -> [panic |-> "n-valued function passed to hj.Handler",
                 hasErr |-> FALSE, resultType |-> NilType]

Handler(fn, onErr) ==
  IF fn.kind # "func" THEN Panic("non-function passed to hj.Handler")
  ELSE IF fn.variadic THEN Panic("variadic function passed to hj.Handler")
  ELSE LET i == HandlerIn(fn.ins)
           o == HandlerOut(fn.outs)
       IN  IF i.panic # "" THEN Panic(i.panic)
           ELSE IF o.panic # "" THEN Panic(o.panic)
           ELSE [panic |-> "", fval |-> fn, hasCtx |-> i.hasCtx, hasErr |-> o.hasErr,
                 argType |-> i.argType, resultType |-> o.resultType, onError |-> onErr]

(***************************************************************************)
(* Error values (err.go) and the errors of the collaborators.              *)
(***************************************************************************)
Nil == [kind |-> "nil"]

\* errors.New(msg): an error with a message and no other method
errorString(msg) == [kind |-> "errorString", msg |-> msg]
\* fmt.Errorf("wrapped: %w", e): a plain error whose cause is e
wrapError(e) == [kind |-> "wrapError", Err |-> e]
\* an error type of the wrapped function's author: it may implement Responder
\* (Respond writes status `status`) and may implement As (converting to
\* CodeErr{C: as}; as = 0 means no As method)
userErr(respond, status, as) ==
  [kind |-> "userErr", respond |-> respond, status |-> status, as |-> as]

ErrNotPost(method) == [kind |-> "ErrNotPost", Method |-> method]
ErrNotJSON(ct) == [kind |-> "ErrNotJSON", ContentType |-> ct]
ErrDecode(e) == [kind |-> "ErrDecode", Err |-> e]
ErrEncode(e) == [kind |-> "ErrEncode", Err |-> e]
CodeErr(c, e) == [kind |-> "CodeErr", C |-> c, Err |-> e]

StatusOK == 200
StatusNoContent == 204
StatusBadRequest == 400
StatusInternalServerError == 500

\* http.StatusText
StatusText(c) ==
  CASE c = StatusOK -> "OK"
    [] c = StatusNoContent -> "No Content"
    [] c = StatusBadRequest -> "Bad Request"
    [] c = 404 -> "Not Found"
    [] c = 409 -> "Conflict"
    [] c = StatusInternalServerError -> "Internal Server Error"
    [] c = 503 -> "Service Unavailable"
    [] OTHER -> ""

\* Unwrap: the cause of an error, Nil when it has none
Unwrap(e) ==
  IF e.kind \in {"ErrDecode", "ErrEncode", "CodeErr", "wrapError"} THEN e.Err ELSE Nil

\* Error(): the message, as the sequence of its pieces
RECURSIVE Error(_)
Error(e) ==
  CASE e.kind = "ErrNotPost" -> <<"HTTP method is ", e.Method, " but ", "must be POST">>
    [] e.kind = "ErrNotJSON" ->
         <<"request Content-Type is ", e.ContentType, ", ", "want application/json">>
    [] e.kind = "ErrDecode" -> <<"while decoding JSON request body: ">> \o Error(e.Err)
    [] e.kind = "ErrEncode" -> <<"while encoding JSON response: ">> \o Error(e.Err)
    [] e.kind = "CodeErr" ->
         <<"HTTP ", ToString(e.C)>>
         \o (IF StatusText(e.C) # "" THEN <<": ", StatusText(e.C)>> ELSE <<>>)
         \o (IF e.Err # Nil THEN <<": ">> \o Error(e.Err) ELSE <<>>)
    [] e.kind = "errorString" -> <<e.msg>>
    [] e.kind = "wrapError" -> <<"wrapped: ">> \o Error(e.Err)
    [] e.kind = "userErr" -> <<"user error">>
    [] OTHER -> <<>>

\* the As methods: the code of the CodeErr that e.As(&c) stores, 0 when e has
\* no As method or As returns false
As(e) ==
  CASE e.kind \in {"ErrNotPost", "ErrNotJSON", "ErrDecode", "ErrEncode"} -> StatusBadRequest
    [] e.kind = "userErr" -> e.as
    [] OTHER -> 0

\* err.(Responder): does the error's type have a Respond method
IsResponder(e) ==
  CASE e.kind = "CodeErr" -> TRUE
    [] e.kind = "userErr" -> e.respond
    [] OTHER -> FALSE

(***************************************************************************)
(* http.ResponseWriter.                                                    *)
(***************************************************************************)
\* header: the Content-Type in the header map; status, sent: the status and
\* Content-Type that went out with the header; body: what was written;
\* failing: Write returns an error; whCalls: the calls of WriteHeader
NewResponseWriter ==
  [header |-> "", wroteHeader |-> FALSE, status |-> 0, sent |-> "", body |-> <<>>,
   failing |-> FALSE, whCalls |-> 0]

SetContentType(w, ct) == [w EXCEPT !.header = ct]

\* the header goes out once; a later WriteHeader is superfluous
SendHeader(w, code) ==
  IF w.wroteHeader THEN w
  ELSE [w EXCEPT !.wroteHeader = TRUE, !.status = code, !.sent = w.header]

WriteHeader(w, code) == [SendHeader(w, code) EXCEPT !.whCalls = @ + 1]

\* Write calls WriteHeader(200) if the header is not out yet
Write(w, data) ==
  LET w1 == IF w.wroteHeader THEN w ELSE WriteHeader(w, StatusOK)
  IN  IF w1.failing THEN w1 ELSE [w1 EXCEPT !.body = @ \o data]

\* http.Error
httpError(w, msg, code) ==
  Write(WriteHeader(SetContentType(w, "text/plain; charset=utf-8"), code), msg \o <<"\n">>)

\* the body a Responder of the function's author writes
UserBody == <<"{\"problem\":true}">>

\* Respond: CodeErr.Respond, or the Respond method of a user's error type
Respond(e, w) ==
  IF e.kind = "CodeErr" THEN httpError(w, Error(e), e.C)
  ELSE Write(WriteHeader(SetContentType(w, "application/problem+json"), e.status), UserBody)

(***************************************************************************)
(* The JSON codec, on JSON texts that are sequences of characters.         *)
(***************************************************************************)
Digits == {"0", "1", "2", "3", "4", "5", "6", "7", "8", "9"}
DigitVal(c) ==
  CASE c = "0" -> 0 [] c = "1" -> 1 [] c = "2" -> 2 [] c = "3" -> 3 [] c = "4" -> 4
    [] c = "5" -> 5 [] c = "6" -> 6 [] c = "7" -> 7 [] c = "8" -> 8 [] c = "9" -> 9
DigitChar(d) == <<"0", "1", "2", "3", "4", "5", "6", "7", "8", "9">>[d + 1]

\* the values of the function's data parameter and data result
Num(n) == [t |-> "num", n |-> n]
NaN == [t |-> "NaN", n |-> 0]
NilVal == [t |-> "nil", n |-> 0]
\* a non-nil error value in a data position (*errors.errorString)
ErrorStruct == [t |-> "struct", n |-> 0]
NoVal == [t |-> "none", n |-> 0]

RECURSIVE SkipSpace(_)
SkipSpace(s) == IF s # <<>> /\ Head(s) = " " THEN SkipSpace(Tail(s)) ELSE s

\* the number literal at the head of s: "0", or the longest run of digits
RECURSIVE DigitRun(_)
DigitRun(s) ==
  IF s # <<>> /\ Head(s) \in Digits THEN <<Head(s)>> \o DigitRun(Tail(s)) ELSE <<>>
NumberLiteral(s) == IF Head(s) = "0" THEN <<"0">> ELSE DigitRun(s)

RECURSIVE ParseNat(_, _)
ParseNat(s, acc) == IF s = <<>> THEN acc ELSE ParseNat(Tail(s), 10 * acc + DigitVal(Head(s)))

RECURSIVE FormatNat(_)
FormatNat(n) == IF n < 10 THEN <<DigitChar(n)>> ELSE FormatNat(n \div 10) \o <<DigitChar(n % 10)>>

\* json.Decoder.Decode into a new value of type t: the first JSON value of
\* the body, after white space
Decode(body, t) ==
  LET s == SkipSpace(body)
  IN  IF s = <<>> THEN [err |-> errorString("EOF"), val |-> NoVal]
      ELSE IF Head(s) \notin Digits
      THEN [err |-> errorString("invalid character looking for beginning of value"),
            val |-> NoVal]
      ELSE IF t # "float64"
      THEN [err |-> errorString("json: cannot unmarshal number into Go value"), val |-> NoVal]
      ELSE [err |-> Nil, val |-> Num(ParseNat(NumberLiteral(s), 0))]

\* json.Marshal
Marshal(v) ==
  CASE v.t = "num" -> [err |-> Nil, text |-> FormatNat(v.n)]
    [] v.t = "nil" -> [err |-> Nil, text |-> <<"n", "u", "l", "l">>]
    [] v.t = "struct" -> [err |-> Nil, text |-> <<"{", "}">>]
    [] OTHER -> [err |-> errorString("json: unsupported value"), text |-> <<>>]

\* json.Encoder.Encode(v) on w: marshal, add a newline, write once
Encode(w, v) ==
  LET m == Marshal(v)
      w1 == Write(w, m.text \o <<"\n">>)
  IN  IF m.err # Nil THEN [w |-> w, err |-> m.err]
      ELSE IF w.failing THEN [w |-> w1, err |-> errorString("write failed")]
      ELSE [w |-> w1, err |-> Nil]

(***************************************************************************)
(* mime.ParseMediaType on a Content-Type header.                           *)
(***************************************************************************)
\* a header value: the text before the first ";" and the parameters after it
HeaderValue(mt, params) == [mediatype |-> mt, params |-> params]
Param(key, value) == [key |-> key, value |-> value]
\* the absent header reads as ""
NoHeader == HeaderValue("", <<>>)

ToLower(s) ==
  CASE s = "Application/JSON" -> "application/json"
    [] OTHER -> s

\* the media type is lower-cased; no media type is an error; a parameter
\* without a value is an error that still returns the media type
ParseMediaType(v) ==
  LET mt == ToLower(v.mediatype)
  IN  IF mt = "" THEN [ct |-> "", err |-> errorString("mime: no media type")]
      ELSE IF \E i \in 1..Len(v.params) : v.params[i].value = ""
      THEN [ct |-> mt, err |-> errorString("mime: invalid media parameter")]
      ELSE [ct |-> mt, err |-> Nil]

(***************************************************************************)
(* The context and its carrier (context.WithValue, Request, Response).     *)
(***************************************************************************)
\* a context without values
Background == [k \in {} |-> 0]
WithValue(c, k, v) == [x \in DOMAIN c \cup {k} |-> IF x = k THEN v ELSE c[x]]
NoRequest == [id |-> 0, Method |-> "", ContentType |-> NoHeader, Body |-> <<>>]
NoResponse == 0
Request(c) == IF "reqKey" \in DOMAIN c THEN c["reqKey"] ELSE NoRequest
Response(c) == IF "respKey" \in DOMAIN c THEN c["respKey"] ELSE NoResponse

(***************************************************************************)
(* Requests and the behaviours of the wrapped function.                    *)
(***************************************************************************)
Reqs == 1..MaxReqs
Methods == {"POST", "GET"}
ContentTypes ==
  {NoHeader,
   HeaderValue("application/json", <<>>),
   HeaderValue("Application/JSON", <<Param("charset", "utf-8")>>),
   HeaderValue("application/json", <<Param("charset", "")>>),
   HeaderValue("text/plain", <<>>)}
BodyChars == {"1", "2", " ", "x"}
Bodies == SeqsUpTo(BodyChars, MaxBodyLen)

\* the errors the wrapped function returns: plain, CodeErr (404, 200, and 599
\* that http.StatusText does not know), Responders answering 503 with and
\* without an As method (to 409), an As method alone, a wrapped CodeErr
UserErrs ==
  {errorString("boom"),
   CodeErr(404, Nil),
   CodeErr(200, Nil),
   CodeErr(599, errorString("boom")),
   userErr(TRUE, 503, 0),
   userErr(TRUE, 503, 409),
   userErr(FALSE, 0, 409),
   wrapError(CodeErr(404, Nil))}

\* the values a function returns in a data result of type t, given its
\* argument a: the argument itself (an echo), a constant, a value that
\* json.Marshal rejects
ResultVals(t, a) ==
  CASE t = "float64" -> (IF a.t = "num" THEN {a} ELSE {}) \cup {Num(10), NaN}
    [] t = "error" -> {NilVal, ErrorStruct}
    [] OTHER -> {NoVal}

\* h.fval.Call(args): what the function may return, rv[0] as val and
\* rv[len(rv)-1] as err
Call(hh, a) ==
  {[val |-> v, err |-> e] :
     v \in ResultVals(hh.resultType, a),
     e \in IF hh.hasErr THEN {Nil} \cup UserErrs ELSE {Nil}}

\* w.Header().Set("Content-Type", ...) before the result is encoded
setJSONContentType_NoCharset(ww) == SetContentType(ww, "application/json")
setJSONContentType(ww) == SetContentType(ww, "application/json; charset=utf-8")

Event(op, c, v, e) == [op |-> op, ctx |-> c, val |-> v, err |-> e]

\* handleErr without the Responder case
handleErrResponse_Always500(ww, e) == httpError(ww, Error(e), StatusInternalServerError)

\* handleErr asking As for a code before it asks for a Responder
handleErrResponse_AsFirst(ww, e) ==
  IF As(e) # 0 THEN httpError(ww, Error(e), As(e))
  ELSE IF IsResponder(e) THEN Respond(e, ww)
  ELSE httpError(ww, Error(e), StatusInternalServerError)

\* handleErr: the response it writes
handleErrResponse(ww, e) ==
  IF IsResponder(e) THEN Respond(e, ww)
  ELSE httpError(ww, Error(e), StatusInternalServerError)

\* handleErr calling onError before it writes the response
handleErrEvents_SinkFirst(hh, c, e) ==
  (IF hh.onError THEN <<Event("onError", c, NoVal, e)>> ELSE <<>>)
  \o <<Event("respond", c, NoVal, e)>>

\* handleErr: the response, then the onError callback if there is one
handleErrEvents(hh, c, e) ==
  <<Event("respond", c, NoVal, e)>>
  \o (IF hh.onError THEN <<Event("onError", c, NoVal, e)>> ELSE <<>>)

(***************************************************************************)
(* The state machine.                                                      *)
(***************************************************************************)
VARIABLES
  f,            \* the value passed to Handler
  onError,      \* is an onError callback passed to Handler
  constructed,  \* has Handler been called
  h,            \* the jsonHandler (or the panic of Handler)
  pc,           \* per request slot: the stage of ServeHTTP
  req,          \* per slot: the *http.Request
  ctx,          \* per slot: the context with the request and the writer
  w,            \* per slot: the http.ResponseWriter
  arg,          \* per slot: the decoded argument
  rv,           \* per slot: the values the function returned
  err,          \* per slot: the error that ended the pipeline
  log           \* per slot: the calls made, in order

vars == <<f, onError, constructed, h, pc, req, ctx, w, arg, rv, err, log>>
adapter == <<f, onError, constructed, h>>

NoRv == [val |-> NoVal, err |-> Nil]

\* before Handler is called with one of the values fs
InitFrom(fs) ==
  /\ f \in fs
  /\ onError \in BOOLEAN
  /\ constructed = FALSE
  /\ h = Panic("")
  /\ pc = [r \in Reqs |-> "idle"]
  /\ req = [r \in Reqs |-> NoRequest]
  /\ ctx = [r \in Reqs |-> Background]
  /\ w = [r \in Reqs |-> NewResponseWriter]
  /\ arg = [r \in Reqs |-> NoVal]
  /\ rv = [r \in Reqs |-> NoRv]
  /\ err = [r \in Reqs |-> Nil]
  /\ log = [r \in Reqs |-> <<>>]

Init == InitFrom(FuncValues)

\* Handler(f, onError) at wiring time
Construct ==
  /\ ~constructed
  /\ constructed' = TRUE
  /\ h' = Handler(f, onError)
  /\ UNCHANGED <<f, onError, pc, req, ctx, w, arg, rv, err, log>>

Serving == constructed /\ h.panic = ""

\* the context of the earlier ServeHTTP, which carried the request only
newContext_RequestOnly(rq, r) == WithValue(Background, "reqKey", rq)

\* the context ServeHTTP builds: the request's, with the request and the writer
newContext(rq, r) == WithValue(WithValue(Background, "reqKey", rq), "respKey", r)

\* the transport hands a request, with a method, Content-Type and body of
\* ms, cts, bs, to ServeHTTP on a free slot; ServeHTTP builds the context
Dispatch(r, ms, cts, bs) ==
  /\ Serving
  /\ pc[r] = "idle"
  /\ \E m \in ms, ct \in cts, b \in bs :
       LET rq == [id |-> r, Method |-> m, ContentType |-> ct, Body |-> b]
       IN  /\ req' = [req EXCEPT ![r] = rq]
           /\ ctx' = [ctx EXCEPT ![r] = newContext(rq, r)]
  /\ pc' = [pc EXCEPT ![r] = "Start"]
  /\ UNCHANGED <<adapter, w, arg, rv, err, log>>

\* one request at a time
Arrive(r) ==
  /\ \A q \in Reqs : pc[q] = "idle"
  /\ Dispatch(r, Methods, ContentTypes, Bodies)

\* MethodCheck without the return after handleErr: the pipeline goes on
MethodCheck_NoReturn(r) ==
  /\ pc[r] = "Start"
  /\ IF req[r].Method # "POST"
     THEN err' = [err EXCEPT ![r] = ErrNotPost(req[r].Method)]
     ELSE UNCHANGED err
  /\ pc' = [pc EXCEPT ![r] = "MethodChecked"]
  /\ UNCHANGED <<adapter, req, ctx, w, arg, rv, log>>

\* req.Method != "POST"
MethodCheck(r) ==
  /\ pc[r] = "Start"
  /\ IF req[r].Method # "POST"
     THEN /\ err' = [err EXCEPT ![r] = ErrNotPost(req[r].Method)]
          /\ pc' = [pc EXCEPT ![r] = "ErrorHandling"]
     ELSE /\ pc' = [pc EXCEPT ![r] = "MethodChecked"]
          /\ UNCHANGED err
  /\ UNCHANGED <<adapter, req, ctx, w, arg, rv, log>>

ContentTypeCheck(r) ==
  /\ pc[r] = "MethodChecked"
  /\ LET p == ParseMediaType(req[r].ContentType)
     IN  IF p.err # Nil \/ p.ct # "application/json"
         THEN /\ err' = [err EXCEPT ![r] = ErrNotJSON(p.ct)]
              /\ pc' = [pc EXCEPT ![r] = "ErrorHandling"]
         ELSE /\ pc' = [pc EXCEPT ![r] = "ContentTypeChecked"]
              /\ UNCHANGED err
  /\ UNCHANGED <<adapter, req, ctx, w, arg, rv, log>>

\* DecodeArg decoding the body also when the function has no data parameter
DecodeArg_Always(r) ==
  /\ pc[r] = "ContentTypeChecked"
  /\ LET d == Decode(req[r].Body, h.argType)
     IN  IF d.err # Nil
         THEN /\ err' = [err EXCEPT ![r] = ErrDecode(d.err)]
              /\ pc' = [pc EXCEPT ![r] = "ErrorHandling"]
              /\ UNCHANGED arg
         ELSE /\ arg' = [arg EXCEPT ![r] = d.val]
              /\ pc' = [pc EXCEPT ![r] = "Decoded"]
              /\ UNCHANGED err
  /\ UNCHANGED <<adapter, req, ctx, w, rv, log>>

\* the body is decoded when the function has a data parameter
DecodeArg(r) ==
  /\ pc[r] = "ContentTypeChecked"
  /\ IF h.argType # NilType
     THEN LET d == Decode(req[r].Body, h.argType)
          IN  IF d.err # Nil
              THEN /\ err' = [err EXCEPT ![r] = ErrDecode(d.err)]
                   /\ pc' = [pc EXCEPT ![r] = "ErrorHandling"]
                   /\ UNCHANGED arg
              ELSE /\ arg' = [arg EXCEPT ![r] = d.val]
                   /\ pc' = [pc EXCEPT ![r] = "Decoded"]
                   /\ UNCHANGED err
     ELSE /\ pc' = [pc EXCEPT ![r] = "Decoded"]
          /\ UNCHANGED <<arg, err>>
  /\ UNCHANGED <<adapter, req, ctx, w, rv, log>>

\* the function is called and returns one of outs
InvokeFrom(r, outs) ==
  /\ pc[r] = "Decoded"
  /\ \E out \in outs : rv' = [rv EXCEPT ![r] = out]
  /\ log' = [log EXCEPT ![r] =
               Append(@, Event("call", IF h.hasCtx THEN ctx[r] ELSE Background, arg[r], Nil))]
  /\ pc' = [pc EXCEPT ![r] = "Invoked"]
  /\ UNCHANGED <<adapter, req, ctx, w, arg, err>>

Invoke(r) == InvokeFrom(r, Call(h, arg[r]))

\* ErrorCheck that does not look at the error the function returned
ErrorCheck_Skip(r) ==
  /\ pc[r] = "Invoked"
  /\ pc' = [pc EXCEPT ![r] = "ErrorChecked"]
  /\ UNCHANGED <<adapter, req, ctx, w, arg, rv, err, log>>

\* a non-nil error in the last result ends the pipeline
ErrorCheck(r) ==
  /\ pc[r] = "Invoked"
  /\ IF h.hasErr /\ rv[r].err # Nil
     THEN /\ err' = [err EXCEPT ![r] = rv[r].err]
          /\ pc' = [pc EXCEPT ![r] = "ErrorHandling"]
     ELSE /\ pc' = [pc EXCEPT ![r] = "ErrorChecked"]
          /\ UNCHANGED err
  /\ UNCHANGED <<adapter, req, ctx, w, arg, rv, log>>

\* NoContent writing 200 instead of 204
NoContent_OK(r) ==
  /\ pc[r] = "ErrorChecked"
  /\ h.resultType = NilType
  /\ w' = [w EXCEPT ![r] = WriteHeader(@, StatusOK)]
  /\ pc' = [pc EXCEPT ![r] = "NoContent"]
  /\ UNCHANGED <<adapter, req, ctx, arg, rv, err, log>>

\* the function has no data result: 204 and no body
NoContent(r) ==
  /\ pc[r] = "ErrorChecked"
  /\ h.resultType = NilType
  /\ w' = [w EXCEPT ![r] = WriteHeader(@, StatusNoContent)]
  /\ pc' = [pc EXCEPT ![r] = "NoContent"]
  /\ UNCHANGED <<adapter, req, ctx, arg, rv, err, log>>

\* the result is encoded onto the writer, whose Write may fail
EncodeResult(r) ==
  /\ pc[r] = "ErrorChecked"
  /\ h.resultType # NilType
  /\ \E fail \in BOOLEAN :
       LET w0 == [setJSONContentType(w[r]) EXCEPT !.failing = fail]
           e == Encode(w0, rv[r].val)
       IN  /\ w' = [w EXCEPT ![r] = e.w]
           /\ IF e.err # Nil
              THEN /\ err' = [err EXCEPT ![r] = ErrEncode(e.err)]
                   /\ pc' = [pc EXCEPT ![r] = "ErrorHandling"]
              ELSE /\ pc' = [pc EXCEPT ![r] = "Encoded"]
                   /\ UNCHANGED err
  /\ UNCHANGED <<adapter, req, ctx, arg, rv, log>>

\* handleErr answering on the writer of every request that is in error
\* handling, as if the writer were kept in the shared handler
HandleErr_Shared(r) ==
  /\ pc[r] = "ErrorHandling"
  /\ w' = [q \in Reqs |->
             IF pc[q] = "ErrorHandling" THEN handleErrResponse(w[q], err[r]) ELSE w[q]]
  /\ log' = [log EXCEPT ![r] = @ \o handleErrEvents(h, ctx[r], err[r])]
  /\ pc' = [pc EXCEPT ![r] = "Done"]
  /\ UNCHANGED <<adapter, req, ctx, arg, rv, err>>

\* handleErr(err), and the return that follows it
HandleErr(r) ==
  /\ pc[r] = "ErrorHandling"
  /\ w' = [w EXCEPT ![r] = handleErrResponse(@, err[r])]
  /\ log' = [log EXCEPT ![r] = @ \o handleErrEvents(h, ctx[r], err[r])]
  /\ pc' = [pc EXCEPT ![r] = "Done"]
  /\ UNCHANGED <<adapter, req, ctx, arg, rv, err>>

\* ServeHTTP returns after the 204 or the encoded result
Return(r) ==
  /\ pc[r] \in {"NoContent", "Encoded"}
  /\ pc' = [pc EXCEPT ![r] = "Done"]
  /\ UNCHANGED <<adapter, req, ctx, w, arg, rv, err, log>>

\* the transport is done with the request and its slot is free again
Complete(r) ==
  /\ pc[r] = "Done"
  /\ pc' = [pc EXCEPT ![r] = "idle"]
  /\ req' = [req EXCEPT ![r] = NoRequest]
  /\ ctx' = [ctx EXCEPT ![r] = Background]
  /\ w' = [w EXCEPT ![r] = NewResponseWriter]
  /\ arg' = [arg EXCEPT ![r] = NoVal]
  /\ rv' = [rv EXCEPT ![r] = NoRv]
  /\ err' = [err EXCEPT ![r] = Nil]
  /\ log' = [log EXCEPT ![r] = <<>>]
  /\ UNCHANGED adapter

Next ==
  \/ Construct
  \/ \E r \in Reqs : Arrive(r)
  \/ \E r \in Reqs : MethodCheck(r)
  \/ \E r \in Reqs : ContentTypeCheck(r)
  \/ \E r \in Reqs : DecodeArg(r)
  \/ \E r \in Reqs : Invoke(r)
  \/ \E r \in Reqs : ErrorCheck(r)
  \/ \E r \in Reqs : NoContent(r)
  \/ \E r \in Reqs : EncodeResult(r)
  \/ \E r \in Reqs : HandleErr(r)
  \/ \E r \in Reqs : Return(r)
  \/ \E r \in Reqs : Complete(r)

Spec == Init /\ [][Next]_vars

(***************************************************************************)
(* Concurrent requests: the transport runs ServeHTTP for every slot at     *)
(* once, and the steps of the requests interleave.  The inputs are fewer.  *)
(***************************************************************************)
ConcFuncs ==
  {[kind |-> "func", variadic |-> FALSE,
    ins |-> <<"context.Context", "float64">>, outs |-> <<"float64", "error">>],
   [kind |-> "func", variadic |-> FALSE, ins |-> <<"float64">>, outs |-> <<"error">>]}
ConcContentTypes == {HeaderValue("application/json", <<>>), HeaderValue("text/plain", <<>>)}
ConcBodies == {<<"1">>, <<"x">>}
ConcErrs == {Nil, errorString("boom"), CodeErr(404, Nil)}

InitConc == InitFrom(ConcFuncs)

ArriveConc(r) == Dispatch(r, Methods, ConcContentTypes, ConcBodies)

InvokeConc(r) == InvokeFrom(r, {out \in Call(h, arg[r]) : out.err \in ConcErrs})

NextConc ==
  \/ Construct
  \/ \E r \in Reqs : ArriveConc(r)
  \/ \E r \in Reqs : MethodCheck(r)
  \/ \E r \in Reqs : ContentTypeCheck(r)
  \/ \E r \in Reqs : DecodeArg(r)
  \/ \E r \in Reqs : InvokeConc(r)
  \/ \E r \in Reqs : ErrorCheck(r)
  \/ \E r \in Reqs : NoContent(r)
  \/ \E r \in Reqs : EncodeResult(r)
  \/ \E r \in Reqs : HandleErr(r)
  \/ \E r \in Reqs : Return(r)
  \/ \E r \in Reqs : Complete(r)

SpecConc == InitConc /\ [][NextConc]_vars

TypeOK ==
  /\ pc \in [Reqs -> {"idle", "Start", "MethodChecked", "ContentTypeChecked", "Decoded",
                      "Invoked", "ErrorChecked", "NoContent", "Encoded", "ErrorHandling",
                      "Done"}]
  /\ constructed \in BOOLEAN

(***************************************************************************)
(* Vocabulary of the properties.                                           *)
(***************************************************************************)
Contains(msg, piece) == \E i \in 1..Len(msg) : msg[i] = piece
Ops(r, op) == {i \in 1..Len(log[r]) : log[r][i].op = op}
Called(r) == Ops(r, "call") # {}
\* the function was called and returned no error
Succeeded(r) == Called(r) /\ ~(h.hasErr /\ rv[r].err # Nil)

\* errors.As(e, &CodeErr{}): the code of the first link of e's chain that is
\* a CodeErr or converts to one, 0 when there is none
RECURSIVE ChainCode(_)
ChainCode(e) ==
  IF e = Nil THEN 0
  ELSE IF e.kind = "CodeErr" THEN e.C
  ELSE IF As(e) # 0 THEN As(e)
  ELSE ChainCode(Unwrap(e))

\* C1: a request whose method is not POST gets status 400 and a message
\* containing "must be POST", and the function is not called.
C1_NotPostIs400 ==
  \A r \in Reqs :
    (pc[r] = "Done" /\ req[r].Method # "POST") =>
      /\ w[r].status = StatusBadRequest
      /\ Contains(w[r].body, "must be POST")
      /\ ~Called(r)

\* C2: a POST request passes the content-type check exactly when its media
\* type is application/json; every other POST request gets status 400 and
\* a message containing "want application/json", and the function is not
\* called.
C2_NotJSONIs400 ==
  \A r \in Reqs :
    (pc[r] = "Done" /\ req[r].Method = "POST") =>
      IF ParseMediaType(req[r].ContentType).ct = "application/json"
      THEN err[r].kind # "ErrNotJSON"
      ELSE /\ err[r].kind = "ErrNotJSON"
           /\ w[r].status = StatusBadRequest
           /\ Contains(w[r].body, "want application/json")
           /\ ~Called(r)

\* C3: with a data parameter, a POST application/json request whose body
\* does not decode gets status 400 and a message that wraps the decode
\* failure, and the function is not called.
C3_DecodeIs400 ==
  \A r \in Reqs :
    (pc[r] = "Done" /\ err[r].kind = "ErrDecode") =>
      /\ w[r].status = StatusBadRequest
      /\ w[r].body = <<"while decoding JSON request body: ">>
                       \o Error(Decode(req[r].Body, h.argType).err) \o <<"\n">>
      /\ ~Called(r)

\* a plain error: no Respond method, and nothing in its chain converts to a
\* CodeErr
PlainError(e) == e # Nil /\ ~IsResponder(e) /\ ChainCode(e) = 0

\* C4: when the function returns an error, a CodeErr with code C gives
\* status C, and a plain error gives status 500 with the error's message as
\* a plain-text body.
C4_FuncErrStatus ==
  \A r \in Reqs :
    (pc[r] = "Done" /\ h.hasErr /\ rv[r].err # Nil) =>
      LET e == rv[r].err
      IN  /\ e.kind = "CodeErr" => w[r].status = e.C
          /\ PlainError(e) =>
               /\ w[r].status = StatusInternalServerError
               /\ w[r].sent = "text/plain; charset=utf-8"
               /\ w[r].body = Error(e) \o <<"\n">>
C4_Witness ==
  \E r \in Reqs :
    /\ pc[r] = "Done"
    /\ rv[r].err = CodeErr(404, Nil)
    /\ w[r].status = 404

\* C5: an error with a Respond method is delegated to entirely: the response
\* is what Respond renders, not the default text rendering, also when the
\* error converts to a CodeErr with another code.
C5_ResponderWins ==
  \A r \in Reqs :
    (pc[r] = "Done" /\ IsResponder(err[r])) =>
      /\ w[r] = Respond(err[r], NewResponseWriter)
      /\ err[r].kind = "userErr" =>
           /\ w[r].status = err[r].status
           /\ w[r].body = UserBody
           /\ w[r].sent # "text/plain; charset=utf-8"
C5_Witness ==
  \E r \in Reqs :
    /\ pc[r] = "Done"
    /\ err[r] = userErr(TRUE, 503, 409)
    /\ w[r].status = 503

\* C6: for an error without a Respond method, the status is the code of the
\* CodeErr that a link of the error's chain converts to, and 500 only when
\* no link converts.
C6_ChainCodeStatus ==
  \A r \in Reqs :
    (pc[r] = "Done" /\ err[r] # Nil /\ ~IsResponder(err[r]) /\ ~w[r].failing) =>
      w[r].status = (IF ChainCode(err[r]) # 0 THEN ChainCode(err[r])
                     ELSE StatusInternalServerError)

\* C7: a configured onError is called exactly once for a request that fails,
\* with the request's error and after the error response was written, and
\* is not called for a request that succeeds (200 or 204).
C7_SinkOncePerFailure ==
  \A r \in Reqs :
    /\ \A s \in Ops(r, "onError") :
         /\ h.onError
         /\ pc[r] = "Done" /\ err[r] # Nil /\ log[r][s].err = err[r]
         /\ w[r].wroteHeader
         /\ \E p \in Ops(r, "respond") : p < s
    /\ pc[r] = "Done" =>
         IF err[r] # Nil
         THEN /\ h.onError => Cardinality(Ops(r, "onError")) = 1
              /\ Cardinality(Ops(r, "respond")) = 1
         ELSE /\ Ops(r, "onError") = {}
              /\ w[r].status \in {StatusOK, StatusNoContent}
C7_Witness ==
  \E r \in Reqs :
    /\ pc[r] = "Done"
    /\ err[r].kind = "ErrEncode"
    /\ Cardinality(Ops(r, "onError")) = 1

JSONResponse(r, v) ==
  /\ w[r].status = StatusOK
  /\ w[r].sent = "application/json; charset=utf-8"
  /\ w[r].body = Marshal(v).text \o <<"\n">>
  /\ (h.argType = "float64" /\ v = arg[r]) =>
       Decode(w[r].body, "float64").val = Decode(req[r].Body, "float64").val

\* C8 as stated: with a data result, every request on which the function
\* returns no error gets status 200, Content-Type
\* application/json; charset=utf-8 and the JSON of the returned value.
C8_AlwaysJSON ==
  \A r \in Reqs :
    (pc[r] = "Done" /\ h.resultType # NilType /\ Succeeded(r)) =>
      JSONResponse(r, rv[r].val)

\* C8, amended: with a data result, every request on which the function
\* returns no error and the returned value is serialised and written
\* without failure gets status 200, Content-Type
\* application/json; charset=utf-8 and the JSON of the returned value (an
\* echo answers the value of the request's document).
C8_JSONWhenEncoded ==
  \A r \in Reqs :
    (/\ pc[r] = "Done" /\ h.resultType # NilType /\ Succeeded(r)
     /\ Marshal(rv[r].val).err = Nil /\ ~w[r].failing) =>
      JSONResponse(r, rv[r].val)
C8_Witness ==
  \E r \in Reqs :
    /\ pc[r] = "Done"
    /\ h.fval.ins = <<"context.Context", "float64">>
    /\ h.fval.outs = <<"float64", "error">>
    /\ req[r].Body = <<" ", "1">>
    /\ rv[r] = [val |-> Num(1), err |-> Nil]
    /\ w[r].body = <<"1", "\n">>

\* C9: without a data result, every request on which the function succeeds
\* gets status 204, an empty body and no onError call, with or without an
\* error result.
C9_NoContent ==
  \A r \in Reqs :
    (pc[r] = "Done" /\ h.resultType = NilType /\ Succeeded(r)) =>
      /\ w[r].status = StatusNoContent
      /\ w[r].body = <<>>
      /\ Ops(r, "onError") = {}
      /\ err[r] = Nil
C9_Witness ==
  \E r \in Reqs :
    /\ pc[r] = "Done"
    /\ h.hasErr /\ h.resultType = NilType /\ h.onError
    /\ Called(r)
    /\ w[r].status = StatusNoContent

\* the shape of the parameters and of the results
ParamShape(ins) ==
  CASE Len(ins) = 0 -> "()"
    [] Len(ins) = 1 /\ ins[1] = "context.Context" -> "(ctx)"
    [] Len(ins) = 1 /\ ins[1] # "context.Context" -> "(X)"
    [] Len(ins) = 2 /\ ins[1] = "context.Context" -> "(ctx, X)"
    [] OTHER -> "other"
ReturnShape(outs) ==
  CASE Len(outs) = 0 -> "()"
    [] Len(outs) = 1 /\ outs[1] = "error" -> "(error)"
    [] Len(outs) = 1 /\ outs[1] # "error" -> "(Y)"
    [] Len(outs) = 2 /\ outs[2] = "error" -> "(Y, error)"
    [] OTHER -> "other"

\* C10: construction succeeds exactly for a non-variadic function whose
\* parameters are (), (ctx), (X) or (ctx, X) and whose results are (),
\* (error), (Y) or (Y, error), and classifies hasCtx, argType, hasErr and
\* resultType by these shapes; every other value fails construction.
C10_Construction ==
  constructed =>
    LET ps == ParamShape(f.ins)
        rs == ReturnShape(f.outs)
    IN  /\ h.panic = "" <=>
             (f.kind = "func" /\ ~f.variadic /\ ps # "other" /\ rs # "other")
        /\ h.panic = "" =>
             /\ h.fval = f /\ h.onError = onError
             /\ h.hasCtx = (ps \in {"(ctx)", "(ctx, X)"})
             /\ h.argType = (CASE ps = "(X)" -> f.ins[1]
                               [] ps = "(ctx, X)" -> f.ins[2]
                               [] OTHER -> NilType)
             /\ h.hasErr = (rs \in {"(error)", "(Y, error)"})
             /\ h.resultType = (CASE rs = "(Y)" -> f.outs[1]
                                  [] rs = "(Y, error)" -> f.outs[1]
                                  [] OTHER -> NilType)
C10_Witness ==
  /\ constructed /\ h.panic = ""
  /\ f.ins = <<"context.Context">> /\ f.outs = <<"error">>
  /\ h.hasCtx /\ h.argType = NilType /\ h.hasErr /\ h.resultType = NilType

\* the state of one request
Slot(r) == <<req[r], ctx[r], w[r], arg[r], rv[r], err[r], log[r]>>
\* two requests with the same input: method, header, body, what the function
\* returned, whether the connection failed
SameInput(r, q) ==
  /\ req[r].Method = req[q].Method
  /\ req[r].ContentType = req[q].ContentType
  /\ req[r].Body = req[q].Body
  /\ rv[r] = rv[q]
  /\ w[r].failing = w[q].failing
\* the same response, error and calls
SameOutput(r, q) ==
  /\ w[r] = w[q]
  /\ err[r] = err[q]
  /\ Len(log[r]) = Len(log[q])
  /\ \A i \in 1..Len(log[r]) :
       /\ log[r][i].op = log[q][i].op
       /\ log[r][i].val = log[q][i].val
       /\ log[r][i].err = log[q][i].err

\* C11: under any interleaving of concurrent requests, the handler's fields
\* do not change after construction, a step of one request leaves the state
\* of every other request alone, and two finished requests with the same
\* input have the same response, error and onError call.
C11_Isolation ==
  /\ [](\A r, q \in Reqs :
          (pc[r] = "Done" /\ pc[q] = "Done" /\ SameInput(r, q)) => SameOutput(r, q))
  /\ [][/\ constructed => (constructed' /\ h' = h /\ f' = f /\ onError' = onError)
        /\ \A r \in Reqs : pc'[r] = pc[r] => Slot(r)' = Slot(r)]_vars
C11_Witness ==
  \E r, q \in Reqs :
    /\ r # q
    /\ pc[r] = "Done" /\ err[r].kind = "ErrNotPost" /\ w[r].status = StatusInternalServerError
    /\ pc[q] = "Encoded" /\ w[q].status = StatusOK /\ w[q].body = <<"1", "\n">>

\* C12: the context passed to the function (when it takes one) and to
\* onError, on every failure path, carries the request and the writer of the
\* same request, which Request and Response return; on a context without
\* them Request and Response return nil.
C12_ContextCarries ==
  /\ \A r \in Reqs : \A i \in 1..Len(log[r]) :
       (log[r][i].op = "onError" \/ (log[r][i].op = "call" /\ h.hasCtx)) =>
         /\ req[r].id = r
         /\ Request(log[r][i].ctx) = req[r]
         /\ Response(log[r][i].ctx) = r
  /\ Request(Background) = NoRequest
  /\ Response(Background) = NoResponse
C12_Witness ==
  \E r \in Reqs :
    /\ pc[r] = "Done" /\ err[r].kind = "ErrNotPost" /\ ~Called(r)
    /\ \E i \in Ops(r, "onError") :
         Request(log[r][i].ctx).Method = "GET" /\ Response(log[r][i].ctx) = r

\* the steps a request may take from one stage to the next
StageSteps ==
  {<<"idle", "Start">>,
   <<"Start", "MethodChecked">>, <<"Start", "ErrorHandling">>,
   <<"MethodChecked", "ContentTypeChecked">>, <<"MethodChecked", "ErrorHandling">>,
   <<"ContentTypeChecked", "Decoded">>, <<"ContentTypeChecked", "ErrorHandling">>,
   <<"Decoded", "Invoked">>,
   <<"Invoked", "ErrorChecked">>, <<"Invoked", "ErrorHandling">>,
   <<"ErrorChecked", "Encoded">>, <<"ErrorChecked", "NoContent">>,
   <<"ErrorChecked", "ErrorHandling">>,
   <<"Encoded", "Done">>, <<"NoContent", "Done">>, <<"ErrorHandling", "Done">>,
   <<"Done", "idle">>}

\* C13: a request moves through the stages in order only; the function is
\* called at most once, and only after the method check, the content-type
\* check and the decode (with a data parameter) succeeded; the first failure
\* puts the request in ErrorHandling, from where it only ends: no later
\* stage, no second call, no second error response.
C13_StageOrder ==
  /\ [](\A r \in Reqs :
          /\ Cardinality(Ops(r, "call")) <= 1
          /\ Cardinality(Ops(r, "respond")) <= 1
          /\ Called(r) =>
               /\ pc[r] \in {"Invoked", "ErrorChecked", "Encoded", "NoContent",
                             "ErrorHandling", "Done"}
               /\ req[r].Method = "POST"
               /\ ParseMediaType(req[r].ContentType) = [ct |-> "application/json", err |-> Nil]
               /\ h.argType # NilType =>
                    Decode(req[r].Body, h.argType) = [err |-> Nil, val |-> arg[r]]
          /\ err[r] # Nil => pc[r] \in {"ErrorHandling", "Done"})
  /\ [][\A r \in Reqs :
          /\ pc'[r] # pc[r] => <<pc[r], pc'[r]>> \in StageSteps
          /\ pc[r] = "ErrorHandling" => Ops(r, "call")' = Ops(r, "call")]_vars
C13_Witness ==
  \E r \in Reqs :
    /\ pc[r] = "Done" /\ err[r].kind = "ErrEncode"
    /\ Cardinality(Ops(r, "call")) = 1
    /\ Cardinality(Ops(r, "respond")) = 1

\* C14: the body is decoded only with a data parameter: for a function
\* with parameters () or (ctx), a POST application/json request never ends
\* in an ErrDecode, whatever its body, and the function is called.
C14_NoDecodeWithoutParam ==
  \A r \in Reqs :
    (Serving /\ h.argType = NilType) =>
      /\ err[r].kind # "ErrDecode"
      /\ arg[r] = NoVal
      /\ (/\ pc[r] = "Done" /\ req[r].Method = "POST"
          /\ ParseMediaType(req[r].ContentType) = [ct |-> "application/json", err |-> Nil])
           => Called(r)
C14_Witness ==
  \E r \in Reqs :
    /\ pc[r] = "Done"
    /\ h.hasCtx /\ h.argType = NilType
    /\ req[r].Body = <<"x">>
    /\ Called(r) /\ w[r].status = StatusNoContent

\* C15: when encoding the result fails, the request is in error handling
\* with an ErrEncode that wraps the codec's error, the function is not
\* called again, onError gets that ErrEncode, and the status is 400.
C15_EncodeErrIs400 ==
  \A r \in Reqs :
    (pc[r] = "Done" /\ err[r].kind = "ErrEncode") =>
      /\ Cardinality(Ops(r, "call")) = 1
      /\ h.onError => \E i \in Ops(r, "onError") : log[r][i].err = err[r]
      /\ w[r].status = StatusBadRequest

\* the function returned a non-nil error in its error result
ReturnedError(r) == h.hasErr /\ rv[r].err # Nil
JSONContentType == "application/json; charset=utf-8"

\* C16 as stated: when the function returns a non-nil error, the value
\* returned with it is not serialised, the success content type is not set,
\* and neither 200 nor 204 is written.
C16_NoSuccessStatus ==
  \A r \in Reqs :
    (pc[r] = "Done" /\ ReturnedError(r)) =>
      /\ Marshal(rv[r].val).err = Nil => w[r].body # Marshal(rv[r].val).text \o <<"\n">>
      /\ w[r].header # JSONContentType /\ w[r].sent # JSONContentType
      /\ w[r].status \notin {StatusOK, StatusNoContent}

\* C16, amended: when the function returns a non-nil error, the value
\* returned with it is not serialised and the pipeline sets no success
\* content type and writes no 200 or 204: nothing is written before
\* handleErr, and the response is the one handleErr writes for that error,
\* with status 200 or 204 only when the error's own Respond writes it.
C16_ErrorDiscardsValue ==
  \A r \in Reqs :
    ReturnedError(r) =>
      /\ pc[r] \in {"Invoked", "ErrorHandling", "Done"}
      /\ pc[r] # "Invoked" => err[r] = rv[r].err
      /\ pc[r] # "Done" => w[r] = NewResponseWriter
      /\ pc[r] = "Done" =>
           /\ w[r] = handleErrResponse(NewResponseWriter, rv[r].err)
           /\ Marshal(rv[r].val).err = Nil =>
                w[r].body # Marshal(rv[r].val).text \o <<"\n">>
           /\ w[r].header # JSONContentType /\ w[r].sent # JSONContentType
           /\ w[r].status \in {StatusOK, StatusNoContent} =>
                /\ IsResponder(rv[r].err)
                /\ Respond(rv[r].err, NewResponseWriter).status = w[r].status
           /\ ~IsResponder(rv[r].err) => w[r].status = StatusInternalServerError
C16_Witness ==
  \E r \in Reqs :
    /\ pc[r] = "Done"
    /\ rv[r] = [val |-> Num(10), err |-> errorString("boom")]
    /\ w[r].status = StatusInternalServerError
    /\ w[r].body = <<"boom", "\n">>

\* C17: a request that is done has had exactly one status written: the 204,
\* the 200 of the JSON body, or the status of one error response; no path
\* writes a second status.
C17_OneStatusWrite ==
  \A r \in Reqs :
    pc[r] = "Done" =>
      /\ w[r].whCalls = 1
      /\ Cardinality(Ops(r, "respond")) = (IF err[r] # Nil THEN 1 ELSE 0)

====
